---- MODULE Spec2Model ----
(***************************************************************************)
(* A model of funkpopo/torture_dev: gitlab_commits.py, the fetch-and-      *)
(* aggregate pipeline behind get_commits_data, and api.py, the two HTTP    *)
(* routes that call it (SpecApi).  The sequential functions                *)
(* of the source are operators; how the calls to the remote GitLab         *)
(* instance behave is chosen where the code makes them.  The entry point,  *)
(* the two worker pools and the as_completed loops are actions.            *)
(* filter_diff_data, the pagination loops, get_all_projects and            *)
(* get_all_users are also run alone, each under a specification of its     *)
(* own.                                                                    *)
(***************************************************************************)
EXTENDS Integers, Sequences, FiniteSets, Bags, TLC

\* ------------------------------------------------------------------ bounds
\* The upstream instance holds at most MaxProjects projects.
MaxProjects == 2
\* The days argument ranges over 0..MaxDays.
MaxDays == 2
\* The clock is an integer number of ticks; a calendar day has TicksPerDay.
TicksPerDay == 2
\* A diff given to filter_diff_data has at most MaxDiffLen entries.
MaxDiffLen == 2
\* get_all_projects, run alone, meets an instance of at most MaxListed
\* projects (three pages of the manual pagination).
MaxListed == 201
\* get_all_users, run alone, meets an instance of at most MaxUsers users.
MaxUsers == 250

\* ------------------------------------------------------ program constants
\* per_page of the commit, project and user page listings.
PerPage == 100
\* `if page > 10` of the manual commit pagination.
CommitPageCap == 10
\* min(32, os.cpu_count() * 4)
PoolCap == 32
PoolPerCpu == 4

\* ------------------------------------------------------------------- time
\* datetime.now() is read at the entry of get_today_commits and when a report
\* is assembled.  The run starts at the midnight of day MaxDays + 1 (so that
\* every window starts at a tick >= 0); get_today_commits is entered at that
\* very tick or at the last tick of that day; the read of a report's date
\* returns the tick of the read before it or the first tick of the next day.
ClockStart == (MaxDays + 1) * TicksPerDay
ClockEnd == ClockStart + TicksPerDay - 1
LastTick == ClockEnd + 1
EntryTicks == {ClockStart, ClockEnd}

Min(a, b) == IF a <= b THEN a ELSE b

\* end_date.replace(hour=0, minute=0, second=0, microsecond=0)
Midnight(t) == t - (t % TicksPerDay)

\* A mutation of WindowStart: the window reaches back `days` whole days.
WindowStart_DaysOff(now, n) == Midnight(now) - n * TicksPerDay

\* start_date of get_today_commits.
WindowStart(now, n) == Midnight(now) - (n - 1) * TicksPerDay

\* ------------------------------------------------------------------ diffs
\* An upstream diff entry is a dict; the keys GitLab sends that matter here.
DiffKeys == {"new_path", "old_path", "new_file", "diff"}
KeptKeys == {"new_path", "old_path", "new_file"}

\* dict.get(key, '')
DictGet(d, key) == IF key \in DOMAIN d THEN d[key] ELSE ""

\* A mutation of FilterItem: new_file defaults to FALSE when absent.
FilterItem_Defaulted(d) ==
    [k \in KeptKeys |->
        IF k = "new_file"
        THEN (IF "new_file" \in DOMAIN d THEN d["new_file"] ELSE FALSE)
        ELSE DictGet(d, k)]

\* The body of the loop of filter_diff_data.
FilterItem(d) ==
    LET keys == {"new_path", "old_path"}
                  \cup (IF "new_file" \in DOMAIN d THEN {"new_file"} ELSE {})
    IN [k \in keys |-> IF k = "new_file" THEN d["new_file"] ELSE DictGet(d, k)]

filter_diff_data(diff) == [i \in 1..Len(diff) |-> FilterItem(diff[i])]

\* --------------------------------------------------------- upstream data
\* What projects.list returns for project i.  Every other project lacks the
\* visibility attribute.
ProjectObj(i) ==
    [id |-> i, name |-> <<"name", i>>, path_with_namespace |-> <<"grp", i>>,
     web_url |-> <<"url", i>>, has_visibility |-> (i % 2 = 1),
     visibility |-> "private"]

\* The diff of a commit as the server sends it.
RawDiff(k) ==
    IF k % 2 = 0
    THEN << [new_path |-> "a", old_path |-> "a", new_file |-> FALSE,
             diff |-> "@@"] >>
    ELSE << [new_path |-> "b", old_path |-> "c", diff |-> "@@"],
            [old_path |-> "d", new_file |-> TRUE] >>

\* A commit of project p as commits.list returns it.  t is the commit's time
\* on the server; created_at is the attribute of the returned object, a
\* string: its time and how it is written ("naive": no offset, "Z", "offset":
\* +00:00, "bad": not ISO).  detail_ok / diff_ok: whether commits.get and
\* diff() answer for it.
Commit(p, k, t, has, tz, detail, diffok) ==
    [id |-> <<p, k>>, t |-> t, has_created_at |-> has,
     created_at |-> [t |-> t, tz |-> tz],
     title |-> <<"title", p, k>>, message |-> <<"msg", p, k>>,
     author_name |-> <<"author", k>>, author_email |-> <<"mail", k>>,
     detail_ok |-> detail, diff_ok |-> diffok, raw_diff |-> RawDiff(k)]

\* The repository of project p: one plain commit per tick around the windows,
\* then a commit whose detail fetch fails, one whose diff fails, one object
\* without created_at, and one written with a Z suffix.  A project with an
\* odd id writes its plain timestamps without an offset, one with an even id
\* with +00:00 (as GitLab does).
FirstTick == ClockStart - TicksPerDay - 1
NPlain == LastTick - FirstTick + 1
TzOf(p) == IF p % 2 = 1 THEN "naive" ELSE "offset"

Repo(p) ==
    [k \in 1..NPlain |->
        Commit(p, k, FirstTick + k - 1, TRUE, TzOf(p), TRUE, TRUE)]
    \o << Commit(p, NPlain + 1, ClockStart, TRUE, TzOf(p), FALSE, TRUE),
          Commit(p, NPlain + 2, ClockStart, TRUE, TzOf(p), TRUE, FALSE),
          Commit(p, NPlain + 3, ClockStart, FALSE, TzOf(p), TRUE, TRUE),
          Commit(p, NPlain + 4, ClockStart, TRUE, "Z", TRUE, TRUE) >>

\* How the commit calls of one project behave:
\*   "ok"           commits.list(since, until) answers
\*   "no_until"     it raises; commits.list(since) answers
\*   "manual"       both raise; commits.list(page, per_page) answers
\*   "manual_fail"  all three raise
\*   "get_fail"     gl.projects.get raises
FetchModes == {"ok", "no_until", "manual", "manual_fail", "get_fail"}

\* ------------------------------------------------- get_project_commits
\* commits.list(all=True, since=.., until=..) of a server that honours both.
ListSinceUntil(p, since, until) ==
    LET InRange(c) == since <= c.t /\ c.t <= until
    IN SelectSeq(Repo(p), InRange)

\* commits.list(all=True, since=..) of a server that honours it.
ListSince(p, since) ==
    LET After(c) == since <= c.t
    IN SelectSeq(Repo(p), After)

\* commits.list(page=page, per_page=100)
CommitPage(p, page) ==
    SubSeq(Repo(p), (page - 1) * PerPage + 1, Min(page * PerPage, Len(Repo(p))))

\* datetime.fromisoformat(created_at.replace('Z', '+00:00')) compared with the
\* naive start_date and end_date: a string that is not ISO raises ValueError,
\* one with an offset raises TypeError in the comparison.
DateRaises(c) == c.created_at.tz # "naive"

\* A mutation of InWindow: the upper end of the window is exclusive.
InWindow_Exclusive(c, start, end) == start <= c.created_at.t /\ c.created_at.t < end

\* start_date <= commit_date <= end_date
InWindow(c, start, end) == start <= c.created_at.t /\ c.created_at.t <= end

\* `for commit in batch` of the manual pagination, from entry i on: the
\* commits kept, and whether a commit raised.
RECURSIVE ScanBatch(_, _, _, _, _)
ScanBatch(batch, i, acc, start, end) ==
    IF i > Len(batch) THEN [commits |-> acc, raised |-> FALSE]
    ELSE LET c == batch[i] IN
         IF ~c.has_created_at THEN ScanBatch(batch, i + 1, acc, start, end)
         ELSE IF DateRaises(c) THEN [commits |-> acc, raised |-> TRUE]
         ELSE IF InWindow(c, start, end)
              THEN ScanBatch(batch, i + 1, Append(acc, c), start, end)
              ELSE ScanBatch(batch, i + 1, acc, start, end)

\* `while True` of the manual pagination, from page `page` on.  An exception
\* leaves the loop with the commits appended so far.
RECURSIVE ManualPages(_, _, _, _, _)
ManualPages(p, page, acc, start, end) ==
    LET batch == CommitPage(p, page) IN
    IF batch = <<>> THEN acc
    ELSE LET r == ScanBatch(batch, 1, acc, start, end) IN
         IF r.raised THEN r.commits
         ELSE IF page + 1 > CommitPageCap THEN r.commits
         ELSE ManualPages(p, page + 1, r.commits, start, end)

\* Whether commits.list(since, until), and commits.list(since), raise.
SinceUntilRaises(mode) == mode \in {"no_until", "manual", "manual_fail"}
SinceRaises(mode) == mode \in {"manual", "manual_fail"}

\* A mutation of ListCommits: an empty answer counts as a failure and the
\* next listing is tried.
ListCommits_EmptyFallsThrough(p, mode, start, end) ==
    IF ~SinceUntilRaises(mode) /\ ListSinceUntil(p, start, end) # <<>>
    THEN [strategy |-> "since_until", attempts |-> << "since_until" >>,
          commits |-> ListSinceUntil(p, start, end)]
    ELSE IF ~SinceRaises(mode)
    THEN [strategy |-> "since", attempts |-> << "since_until", "since" >>,
          commits |-> ListSince(p, start)]
    ELSE [strategy |-> "manual",
          attempts |-> << "since_until", "since", "manual" >>,
          commits |-> IF mode = "manual"
                      THEN ManualPages(p, 1, <<>>, start, end) ELSE <<>>]

\* The listing stage, the nested try blocks of lines 119-153: the listings
\* attempted, in the order of their calls, the strategy that produced
\* `commits`, and the commits.
ListCommits(p, mode, start, end) ==
    IF ~SinceUntilRaises(mode)
    THEN [strategy |-> "since_until", attempts |-> << "since_until" >>,
          commits |-> ListSinceUntil(p, start, end)]
    ELSE IF ~SinceRaises(mode)
    THEN [strategy |-> "since", attempts |-> << "since_until", "since" >>,
          commits |-> ListSince(p, start)]
    ELSE [strategy |-> "manual",
          attempts |-> << "since_until", "since", "manual" >>,
          commits |-> IF mode = "manual"
                      THEN ManualPages(p, 1, <<>>, start, end) ELSE <<>>]

\* created_at of the record: replace('Z', '+00:00'), fromisoformat, isoformat;
\* a string that does not parse is kept.
NormalizeCreatedAt(ca) ==
    IF ca.tz = "Z" THEN [ca EXCEPT !.tz = "offset"] ELSE ca

\* Whether the body of `for commit in commits` raises for c: commits.get
\* fails, or the object has no created_at.
CommitRaises(c) == ~c.detail_ok \/ ~c.has_created_at

\* A mutation of CommitData: the record carries the project's name.
CommitData_WrongPath(c, project_info) ==
    [title |-> c.title, message |-> c.message, author_name |-> c.author_name,
     author_email |-> c.author_email,
     created_at |-> NormalizeCreatedAt(c.created_at),
     project_path |-> project_info.name,
     diff |-> IF c.diff_ok THEN filter_diff_data(c.raw_diff) ELSE <<>>]

\* commit_data
CommitData(c, project_info) ==
    [title |-> c.title, message |-> c.message, author_name |-> c.author_name,
     author_email |-> c.author_email,
     created_at |-> NormalizeCreatedAt(c.created_at),
     project_path |-> project_info.path_with_namespace,
     diff |-> IF c.diff_ok THEN filter_diff_data(c.raw_diff) ELSE <<>>]

\* A mutation of CommitDetails: the first commit that raises ends the loop.
RECURSIVE CommitDetails_StopsAtFailure(_, _, _)
CommitDetails_StopsAtFailure(commits, i, project_info) ==
    IF i > Len(commits) THEN <<>>
    ELSE IF CommitRaises(commits[i]) THEN <<>>
    ELSE << CommitData(commits[i], project_info) >>
         \o CommitDetails_StopsAtFailure(commits, i + 1, project_info)

\* `for commit in commits`, from entry i on.
RECURSIVE CommitDetails(_, _, _)
CommitDetails(commits, i, project_info) ==
    IF i > Len(commits) THEN <<>>
    ELSE (IF CommitRaises(commits[i]) THEN <<>>
          ELSE << CommitData(commits[i], project_info) >>)
         \o CommitDetails(commits, i + 1, project_info)

\* A mutation of get_project_commits: the until bound is never sent.
get_project_commits_NoUntil(project_info, mode, start, end) ==
    IF mode = "get_fail"
    THEN [strategy |-> "none", attempts |-> <<>>, listed |-> <<>>,
          result |-> <<>>]
    ELSE LET l == ListCommits(project_info.id,
                              IF mode = "ok" THEN "no_until" ELSE mode, start, end)
         IN [strategy |-> IF mode = "ok" THEN "since_until" ELSE l.strategy,
             attempts |-> IF mode = "ok" THEN << "since_until" >> ELSE l.attempts,
             listed |-> l.commits,
             result |-> CommitDetails(l.commits, 1, project_info)]

\* get_project_commits: the listings attempted, the strategy used, the
\* commits after the listing stage, and the list returned.
get_project_commits(project_info, mode, start, end) ==
    IF mode = "get_fail"
    THEN [strategy |-> "none", attempts |-> <<>>, listed |-> <<>>,
          result |-> <<>>]
    ELSE LET l == ListCommits(project_info.id, mode, start, end)
         IN [strategy |-> l.strategy, attempts |-> l.attempts,
             listed |-> l.commits,
             result |-> CommitDetails(l.commits, 1, project_info)]

\* ---------------------------------------------------- get_all_projects
\* `if page > 100` of the manual project pagination.
ProjectPageCap == 100

\* projects.list(all=True) of an instance holding n projects.
BulkProjects(n) == [i \in 1..n |-> ProjectObj(i)]

\* projects.list(page=page, per_page=100)
ProjectPage(n, page) ==
    SubSeq(BulkProjects(n), (page - 1) * PerPage + 1, Min(page * PerPage, n))

\* The entries of projects_list.
ProjectInfo(o) ==
    [id |-> o.id, name |-> o.name, path_with_namespace |-> o.path_with_namespace,
     visibility |-> IF o.has_visibility THEN o.visibility ELSE "unknown",
     web_url |-> o.web_url]

\* `while True` of the manual project pagination, from page `page` on;
\* page fail_at raises (0: none does).
RECURSIVE ProjectPages(_, _, _, _)
ProjectPages(n, page, acc, fail_at) ==
    IF page = fail_at THEN [raised |-> TRUE, projects |-> acc]
    ELSE LET batch == ProjectPage(n, page) IN
         IF batch = <<>> THEN [raised |-> FALSE, projects |-> acc]
         ELSE IF page + 1 > ProjectPageCap
              THEN [raised |-> FALSE, projects |-> acc \o batch]
              ELSE ProjectPages(n, page + 1, acc \o batch, fail_at)

\* How the project listing calls behave:
\*   "ok"              projects.list(all=True, visibility='all') answers
\*   "vis_fail"        it raises; projects.list(all=True) answers
\*   "both_fail"       both raise
\*   "bulk_empty"      the first bulk listing answers with nothing; the pages
\*                     answer
\*   "vis_fail_empty"  the first bulk listing raises, the second answers with
\*                     nothing; the pages answer
\*   "page_fail"       the bulk listing answers with nothing; page 1 raises
\*   "page2_fail"      the bulk listing answers with nothing; page 2 raises
ProjectListModes ==
    {"ok", "vis_fail", "both_fail", "bulk_empty", "vis_fail_empty", "page_fail",
     "page2_fail"}

\* Whether projects.list(all=True, visibility='all'), and
\* projects.list(all=True), raise; what a bulk listing that answers holds;
\* the page whose request raises.
VisRaises(mode) == mode \in {"vis_fail", "both_fail", "vis_fail_empty"}
BulkRaises(mode) == mode = "both_fail"
BulkAnswer(n, mode) ==
    IF mode \in {"ok", "vis_fail"} THEN BulkProjects(n) ELSE <<>>
PageFailAt(mode) ==
    CASE mode = "page_fail" -> 1
      [] mode = "page2_fail" -> 2
      [] OTHER -> 0

\* A mutation of ListProjects: the listing without the visibility filter is
\* made whether or not the first one raised.
ListProjects_BothBulk(n, mode) ==
    IF BulkRaises(mode)
    THEN [attempts |-> << "bulk_visibility", "bulk" >>, raised |-> TRUE,
          projects |-> <<>>]
    ELSE LET bulk == BulkAnswer(n, mode)
             r == ProjectPages(n, 1, <<>>, PageFailAt(mode))
         IN IF bulk # <<>>
            THEN [attempts |-> << "bulk_visibility", "bulk" >>,
                  raised |-> FALSE, projects |-> bulk]
            ELSE [attempts |-> << "bulk_visibility", "bulk", "pages" >>,
                  raised |-> r.raised, projects |-> r.projects]

\* Lines 57-82 of get_all_projects: the listings attempted in the order of
\* their calls, whether an exception reached the function's except, and the
\* local `projects`.
ListProjects(n, mode) ==
    LET first == IF VisRaises(mode) THEN << "bulk_visibility", "bulk" >>
                 ELSE << "bulk_visibility" >>
    IN IF VisRaises(mode) /\ BulkRaises(mode)
       THEN [attempts |-> first, raised |-> TRUE, projects |-> <<>>]
       ELSE LET bulk == BulkAnswer(n, mode)
                r == ProjectPages(n, 1, <<>>, PageFailAt(mode))
            IN IF bulk # <<>>
               THEN [attempts |-> first, raised |-> FALSE, projects |-> bulk]
               ELSE [attempts |-> Append(first, "pages"),
                     raised |-> r.raised, projects |-> r.projects]

\* get_all_projects against an instance holding n projects: projects_list,
\* which is still empty when an exception reached the except.
get_all_projects(n, mode) ==
    LET l == ListProjects(n, mode)
    IN IF l.raised THEN <<>>
       ELSE [i \in 1..Len(l.projects) |-> ProjectInfo(l.projects[i])]

\* ------------------------------------------------------- get_all_users
\* total_pages when the first page has no `total`.
DefaultUserPages == 20
\* `if page > 50` of the sequential user pagination.
UserPageCap == 50

\* Users are numbered 1..total upstream.  A list of users is kept as the
\* sequence of the runs <<lo, hi>> of consecutive users it is made of, which
\* is the list itself, written shortly: the projection of a user (id,
\* username, name, email, state) is a function of its number.
UserRun(lo, hi) == IF lo <= hi THEN << <<lo, hi>> >> ELSE <<>>

RECURSIVE UserCount(_)
UserCount(runs) ==
    IF runs = <<>> THEN 0
    ELSE (Head(runs)[2] - Head(runs)[1] + 1) + UserCount(Tail(runs))

\* users.list(page=page, per_page=per_page) of an instance holding `total`.
UserPage(total, page, per_page) ==
    UserRun((page - 1) * per_page + 1, Min(page * per_page, total))

\* (first_page.total + 99) // 100
PagesNeeded(total) == (total + 99) \div PerPage

\* A mutation of get_user_batch: the page is asked with the per_page of the
\* estimation call.
get_user_batch_EstimationSize(total, page, ok) ==
    IF ok THEN UserPage(total, page, 20) ELSE <<>>

\* get_user_batch: the batch of one page, empty when the call raises.
get_user_batch(total, page, ok) ==
    IF ok THEN UserPage(total, page, PerPage) ELSE <<>>

\* The pagination of _get_all_users_sequential from page `page` on; page
\* fail_at raises (0: none does), which ends the loop.
RECURSIVE SequentialPages(_, _, _, _)
SequentialPages(total, page, acc, fail_at) ==
    IF page = fail_at THEN acc
    ELSE LET batch == UserPage(total, page, PerPage) IN
         IF batch = <<>> THEN acc
         ELSE IF page + 1 > UserPageCap THEN acc \o batch
         ELSE SequentialPages(total, page + 1, acc \o batch, fail_at)

\* _get_all_users_sequential: users.list(all=True), and the pagination when
\* it raises.
get_all_users_sequential(total, bulk_ok, fail_at) ==
    IF bulk_ok THEN UserRun(1, total)
    ELSE SequentialPages(total, 1, <<>>, fail_at)

\* ------------------------------------------------------------------ state
VARIABLES
    pc,                \* where get_commits_data stands
    days, threads,     \* its arguments
    clock,             \* the latest value datetime.now() returned
    gl,                \* whether get_gitlab_client returned a client
    projects, users,   \* locals of get_commits_data
    user_total,        \* the number of users the instance holds
    user_batches,      \* get_all_users: the result of each submitted future
    user_pending,      \* get_all_users: the futures not yet taken by as_completed
    user_has_total,    \* get_all_users: whether first_page had a `total`
    user_pages,        \* get_all_users: the page each submitted future was given
    user_failing,      \* get_all_users: the pages whose users.list raises
    all_users,         \* get_all_users: all_users
    start_date, end_date, max_workers,     \* locals of get_today_commits
    pool,              \* get_today_commits: the state of its ThreadPoolExecutor
    futures,           \* get_today_commits: future_to_project, per project index
    all_commits, processed_commits, progress,
    report,            \* what get_commits_data returned
    calls,             \* the kinds of upstream call issued so far
    diff, filtered_diff,   \* filter_diff_data: its argument and its result
    loop,              \* the pagination loop that runs, if one runs alone
    loop_pc,           \* where that loop stands
    cur_page,          \* its local `page`
    requests,          \* the page requests it issued
    loop_kept,         \* the pages whose items its local list holds
    loop_result,       \* the pages whose items its function went on with
    up_pages,          \* upstream: the number of its leading non-empty pages
    up_endless,        \* upstream: no page is ever empty
    up_fail_at,        \* upstream: the page whose request raises (0: none)
    up_projects,       \* get_all_projects alone: the projects upstream holds
    project_mode,      \* ... how its listing calls behave
    project_attempts,  \* ... the listings it attempted
    endpoint,          \* the HTTP route that called get_commits_data, if one did
    response           \* what that route answered

vars == << pc, days, threads, clock, gl, projects, users, user_total,
           user_batches, user_pending, user_has_total, user_pages,
           user_failing, all_users, start_date, end_date, pool,
           max_workers, futures, all_commits, processed_commits, progress,
           report, calls, diff, filtered_diff, loop, loop_pc, cur_page,
           requests, loop_kept, loop_result, up_pages, up_endless,
           up_fail_at, up_projects, project_mode, project_attempts,
           endpoint, response >>

userVars == << user_total, user_batches, user_pending, user_has_total,
              user_pages, user_failing, all_users >>
\* The locals of get_all_users.
userLocals == << user_batches, user_pending, user_has_total, user_pages,
                user_failing, all_users >>
diffVars == << diff, filtered_diff >>
loopVars == << loop, loop_pc, cur_page, requests, loop_kept, loop_result,
              up_pages, up_endless, up_fail_at >>
poolVars == << start_date, end_date, max_workers, pool, futures, all_commits,
               processed_commits, progress >>
projVars == << up_projects, project_mode, project_attempts >>
apiVars == << endpoint, response >>
\* The variables of the functions that are run alone, and of the HTTP shell.
aloneVars == << diffVars, loopVars, projVars, apiVars >>

\* The arguments and the machine the runs are explored for.
ThreadsValues == {0, 1, 2}
CpuCounts == {1, 8}
UserTotals == {0, 1}
GitlabUrl == "https://gitlab.example"

NoReport == <<>>
NoResponse == <<>>

\* Nothing has run yet.
Fresh ==
    /\ clock = ClockStart
    /\ gl = FALSE
    /\ projects = <<>>
    /\ users = <<>>
    /\ user_batches = <<>>
    /\ user_pending = {}
    /\ user_has_total = FALSE
    /\ user_pages = <<>>
    /\ user_failing = {}
    /\ all_users = <<>>
    /\ start_date = 0
    /\ end_date = 0
    /\ max_workers = 0
    /\ pool = "none"
    /\ futures = <<>>
    /\ all_commits = <<>>
    /\ processed_commits = 0
    /\ progress = 0
    /\ report = NoReport
    /\ calls = {}
    /\ filtered_diff = <<>>
    /\ response = NoResponse

\* get_commits_data is not called by an HTTP route.
NoEndpoint == endpoint = "none"

\* No pagination loop runs alone.
NoLoop ==
    /\ loop = "none"
    /\ loop_pc = "idle"
    /\ cur_page = 0
    /\ requests = 0
    /\ loop_kept = {}
    /\ loop_result = {}
    /\ up_pages = 0
    /\ up_endless = FALSE
    /\ up_fail_at = 0

\* get_all_projects is not run alone.
NoProjectRun ==
    /\ up_projects = 0
    /\ project_mode = "none"
    /\ project_attempts = <<>>

\* get_commits_data is called.
Init ==
    /\ pc = "auth"
    /\ days \in 0..MaxDays
    /\ threads \in ThreadsValues
    /\ user_total \in UserTotals
    /\ diff = <<>>
    /\ Fresh
    /\ NoEndpoint
    /\ NoLoop
    /\ NoProjectRun

\* --------------------------------------------------- get_commits_data
\* The report of the except branch.
ErrorReport(t) ==
    [metadata |-> [date |-> t, error |-> "ERROR: An unexpected error occurred"],
     commits |-> <<>>]

\* A mutation of DataReport: commits_count repeats projects_count.
DataReport_Stale(t, ps, us, cs) ==
    [metadata |-> [date |-> t, gitlab_url |-> GitlabUrl, days_included |-> days,
                   projects_count |-> Len(ps), users_count |-> UserCount(us),
                   commits_count |-> Len(ps)],
     commits |-> cs]

\* `data` of the try branch.
DataReport(t, ps, us, cs) ==
    [metadata |-> [date |-> t, gitlab_url |-> GitlabUrl, days_included |-> days,
                   projects_count |-> Len(ps), users_count |-> UserCount(us),
                   commits_count |-> Len(cs)],
     commits |-> cs]

\* get_gitlab_client returns a client.
AuthOk ==
    /\ pc = "auth"
    /\ gl' = TRUE
    /\ calls' = calls \cup {"auth"}
    /\ pc' = "projects"
    /\ UNCHANGED << aloneVars, days, threads, clock, projects, users, userVars, poolVars,
                    report >>

\* A mutation of AuthFail: the failure is swallowed and the run goes on
\* without a client.
AuthFail_Continues ==
    /\ pc = "auth"
    /\ calls' = calls \cup {"auth"}
    /\ pc' = "projects"
    /\ UNCHANGED << aloneVars, days, threads, clock, gl, projects, users, userVars,
                    poolVars, report >>

\* get_gitlab_client raises: the except branch of get_commits_data returns
\* the error report.
AuthFail ==
    /\ pc = "auth"
    /\ calls' = calls \cup {"auth"}
    /\ \E t \in {clock, LastTick} :
          /\ clock' = t
          /\ report' = ErrorReport(t)
    /\ pc' = "done"
    /\ UNCHANGED << aloneVars, days, threads, gl, projects, users, userVars, poolVars >>

\* projects = get_all_projects(gl, debug)
FetchProjects ==
    /\ pc = "projects"
    /\ \E n \in 0..MaxProjects, mode \in ProjectListModes :
          projects' = get_all_projects(n, mode)
    /\ calls' = calls \cup {"projects"}
    /\ pc' = "users"
    /\ UNCHANGED << aloneVars, days, threads, clock, gl, users, userVars, poolVars, report >>

\* ------------------------------------------------- get_all_users, steps
\* The pages whose future returned an empty batch.
EmptyPages == {q \in user_pending : user_batches[q] = <<>>}

\* A mutation of PageRange: range(total_pages).
PageRange_FromZero(total_pages) == [k \in 1..total_pages |-> k - 1]

\* range(1, total_pages + 1)
PageRange(total_pages) == [k \in 1..total_pages |-> k]

\* total_pages
TotalPages(has_total, total) ==
    IF has_total THEN PagesNeeded(total) ELSE DefaultUserPages

\* users.list(page=1, per_page=20) answers: total_pages is derived, and one
\* get_user_batch future is submitted per page of range(1, total_pages + 1).
\* A future whose call raises returns an empty batch.
UsersEstimate ==
    /\ pc = "users"
    /\ \E has_total \in BOOLEAN :
          LET pages == PageRange(TotalPages(has_total, user_total))
          IN /\ user_has_total' = has_total
             /\ user_pages' = pages
             /\ user_pending' = DOMAIN pages
             /\ \E failing \in SUBSET (1..PagesNeeded(user_total)) :
                   /\ user_failing' = failing
                   /\ user_batches' =
                         [k \in DOMAIN pages |->
                             get_user_batch(user_total, pages[k],
                                            pages[k] \notin failing)]
    /\ all_users' = <<>>
    /\ calls' = calls \cup {"users"}
    /\ pc' = "users_wait"
    /\ UNCHANGED << aloneVars, days, threads, clock, gl, projects, users, user_total,
                    poolVars, report >>

\* A mutation of UserCollect: the batch of a failed page empties all_users.
UserCollect_FailureClears(q) ==
    /\ pc = "users_wait"
    /\ q \in user_pending
    /\ user_batches[q] = <<>> => \A r \in EmptyPages : q <= r
    /\ all_users' = IF user_pages[q] \in user_failing THEN <<>>
                    ELSE all_users \o user_batches[q]
    /\ user_pending' = user_pending \ {q}
    /\ UNCHANGED << aloneVars, pc, days, threads, clock, gl, projects, users,
                    user_total, user_batches, user_has_total, user_pages,
                    user_failing, poolVars, report, calls >>

\* One turn of `for future in as_completed(futures)`.  Futures complete in any
\* order; those with an empty batch, which leave all_users as it is, are
\* taken here in page order among themselves.
CanCollectUser(q) ==
    /\ pc = "users_wait"
    /\ q \in user_pending
    /\ user_batches[q] = <<>> => \A r \in EmptyPages : q <= r

UserCollect(q) ==
    /\ CanCollectUser(q)
    /\ all_users' = all_users \o user_batches[q]
    /\ user_pending' = user_pending \ {q}
    /\ UNCHANGED << aloneVars, pc, days, threads, clock, gl, projects, users,
                    user_total, user_batches, user_has_total, user_pages,
                    user_failing, poolVars, report, calls >>

\* get_all_users returns: its locals are gone.
UsersLeave ==
    /\ user_batches' = <<>>
    /\ user_pending' = {}
    /\ user_has_total' = FALSE
    /\ user_pages' = <<>>
    /\ user_failing' = {}
    /\ all_users' = <<>>
    /\ pc' = "commits"

\* The parallel pass is over and found users: get_all_users returns them.
UsersReturn ==
    /\ pc = "users_wait"
    /\ user_pending = {}
    /\ all_users # <<>>
    /\ users' = all_users
    /\ UsersLeave
    /\ UNCHANGED << aloneVars, days, threads, clock, gl, projects, user_total,
                    poolVars, report, calls >>

\* A mutation of CanFallBack: a pass in which a page failed is given up.
CanFallBack_OnAnyFailure ==
    \/ pc = "users"
    \/ /\ pc = "users_wait"
       /\ user_pending = {}
       /\ (all_users = <<>> \/ user_failing # {})

\* The first users.list raises (pc = "users"), or the parallel pass found no
\* user: _get_all_users_sequential is called.
CanFallBack ==
    \/ pc = "users"
    \/ pc = "users_wait" /\ user_pending = {} /\ all_users = <<>>

UsersFallback ==
    /\ CanFallBack
    /\ calls' = calls \cup {"users"}
    /\ pc' = "users_seq"
    /\ UNCHANGED << aloneVars, days, threads, clock, gl, projects, users,
                    userVars, poolVars, report >>

\* users.list(all=True) of _get_all_users_sequential: it answers and
\* get_all_users returns its projection, or it raises.
UsersBulk ==
    /\ pc = "users_seq"
    /\ \/ /\ users' = get_all_users_sequential(user_total, TRUE, 0)
          /\ UsersLeave
       \/ /\ pc' = "users_pages"
          /\ UNCHANGED << users, userLocals >>
    /\ UNCHANGED << aloneVars, days, threads, clock, gl, projects, user_total,
                    poolVars, report, calls >>

\* The pagination of _get_all_users_sequential, and the return of
\* get_all_users.
UsersPages ==
    /\ pc = "users_pages"
    /\ \E fail_at \in 0..PagesNeeded(user_total) :
          users' = get_all_users_sequential(user_total, FALSE, fail_at)
    /\ UsersLeave
    /\ UNCHANGED << aloneVars, days, threads, clock, gl, projects, user_total,
                    poolVars, report, calls >>

\* ---------------------------------------------- get_today_commits, steps
\* max_workers
PoolSize(n, cpu) == IF n <= 0 THEN Min(PoolCap, cpu * PoolPerCpu) ELSE n

Running == {i \in DOMAIN futures : futures[i].state = "running"}
Pending == {i \in DOMAIN futures : futures[i].state = "pending"}

\* The entry of get_today_commits up to the end of the dict comprehension:
\* the window is computed from one reading of the clock and every project's
\* get_project_commits is submitted with it.
SubmitAll ==
    /\ pc = "commits"
    /\ \E t \in EntryTicks, cpu \in CpuCounts :
          /\ clock' = t
          /\ end_date' = t
          /\ start_date' = WindowStart(t, days)
          /\ max_workers' = PoolSize(threads, cpu)
          /\ pool' = "open"
          /\ futures' = [i \in 1..Len(projects) |->
                            [project |-> projects[i],
                             start |-> WindowStart(t, days), end |-> t,
                             state |-> "pending", mode |-> "none",
                             strategy |-> "none", attempts |-> <<>>,
                             listed |-> <<>>, result |-> <<>>]]
    /\ all_commits' = <<>>
    /\ processed_commits' = 0
    /\ progress' = 0
    /\ pc' = "collect"
    /\ UNCHANGED << aloneVars, days, threads, gl, projects, users, userVars, report, calls >>

\* A mutation of CanStart: a thread is started for every queued task.
CanStart_Unbounded(i) ==
    /\ pc = "collect"
    /\ i \in Pending
    /\ \A j \in Pending : i <= j

\* A worker of the pool takes the next queued task (the queue is first in,
\* first out) when fewer than max_workers are running.
CanStart(i) ==
    /\ pc = "collect"
    /\ i \in Pending
    /\ \A j \in Pending : i <= j
    /\ Cardinality(Running) < max_workers

TaskStart(i) ==
    /\ CanStart(i)
    /\ futures' = [futures EXCEPT ![i].state = "running"]
    /\ calls' = calls \cup {"commits"}
    /\ UNCHANGED << aloneVars, pc, days, threads, clock, gl, projects, users, userVars,
                    start_date, end_date, max_workers, pool, all_commits,
                    processed_commits, progress, report >>

\* A running get_project_commits returns: the upstream calls of its project
\* behaved as `mode` says.
TaskFinish(i) ==
    /\ pc = "collect"
    /\ i \in Running
    /\ \E mode \in FetchModes :
          LET f == futures[i]
              r == get_project_commits(f.project, mode, f.start, f.end)
          IN futures' = [futures EXCEPT
                            ![i] = [f EXCEPT !.state = "done", !.mode = mode,
                                             !.strategy = r.strategy,
                                             !.attempts = r.attempts,
                                             !.listed = r.listed,
                                             !.result = r.result]]
    /\ UNCHANGED << aloneVars, pc, days, threads, clock, gl, projects, users, userVars,
                    start_date, end_date, max_workers, pool, all_commits,
                    processed_commits, progress, report, calls >>

\* A mutation of Collect: the extend is lost while a worker is still running.
Collect_Racy(i) ==
    /\ pc = "collect"
    /\ i \in DOMAIN futures
    /\ futures[i].state = "done"
    /\ all_commits' = IF Running # {} THEN all_commits
                       ELSE all_commits \o futures[i].result
    /\ processed_commits' = processed_commits + Len(futures[i].result)
    /\ progress' = progress + 1
    /\ futures' = [futures EXCEPT ![i].state = "collected"]
    /\ UNCHANGED << aloneVars, pc, days, threads, clock, gl, projects, users,
                    userVars, start_date, end_date, max_workers, pool, report, calls >>

\* A mutation of Collect: the result replaces what was aggregated.
Collect_Overwrites(i) ==
    /\ pc = "collect"
    /\ i \in DOMAIN futures
    /\ futures[i].state = "done"
    /\ all_commits' = futures[i].result
    /\ processed_commits' = processed_commits + Len(futures[i].result)
    /\ progress' = progress + 1
    /\ futures' = [futures EXCEPT ![i].state = "collected"]
    /\ UNCHANGED << aloneVars, pc, days, threads, clock, gl, projects, users, userVars,
                    start_date, end_date, max_workers, pool, report, calls >>

\* A mutation of Collect: the bar is not updated for a project whose fetch
\* brought nothing.
Collect_SkipsFailed(i) ==
    /\ pc = "collect"
    /\ i \in DOMAIN futures
    /\ futures[i].state = "done"
    /\ all_commits' = all_commits \o futures[i].result
    /\ processed_commits' = processed_commits + Len(futures[i].result)
    /\ progress' = IF futures[i].result = <<>> THEN progress ELSE progress + 1
    /\ futures' = [futures EXCEPT ![i].state = "collected"]
    /\ UNCHANGED << aloneVars, pc, days, threads, clock, gl, projects, users,
                    userVars, start_date, end_date, max_workers, pool, report,
                    calls >>

\* as_completed yields a future that is done and was not yielded before.
CanCollect(i) ==
    /\ pc = "collect"
    /\ i \in DOMAIN futures
    /\ futures[i].state = "done"

\* One turn of `for future in as_completed(future_to_project)`.
Collect(i) ==
    /\ CanCollect(i)
    /\ all_commits' = all_commits \o futures[i].result
    /\ processed_commits' = processed_commits + Len(futures[i].result)
    /\ progress' = progress + 1
    /\ futures' = [futures EXCEPT ![i].state = "collected"]
    /\ UNCHANGED << aloneVars, pc, days, threads, clock, gl, projects, users, userVars,
                    start_date, end_date, max_workers, pool, report, calls >>

\* as_completed is exhausted.
CanAssemble ==
    /\ pc = "collect"
    /\ \A i \in DOMAIN futures : futures[i].state = "collected"

\* A mutation of Assemble: a project whose fetch failed makes the whole run
\* end in the except branch.
Assemble_Propagates ==
    /\ pc = "collect"
    /\ \A i \in DOMAIN futures : futures[i].state = "collected"
    /\ \E t \in {clock, LastTick} :
          /\ clock' = t
          /\ report' = IF \E i \in DOMAIN futures : futures[i].mode = "get_fail"
                        THEN ErrorReport(t)
                        ELSE DataReport(t, projects, users, all_commits)
    /\ pool' = "shut"
    /\ pc' = "done"
    /\ UNCHANGED << aloneVars, days, threads, gl, projects, users, userVars,
                    start_date, end_date, max_workers, futures, all_commits,
                    processed_commits, progress, calls >>

\* The `with` block of the executor is left, which shuts the pool down;
\* get_today_commits returns all_commits and get_commits_data returns `data`.
Assemble ==
    /\ CanAssemble
    /\ \E t \in {clock, LastTick} :
          /\ clock' = t
          /\ report' = DataReport(t, projects, users, all_commits)
    /\ pool' = "shut"
    /\ pc' = "done"
    /\ UNCHANGED << aloneVars, days, threads, gl, projects, users, userVars,
                    start_date, end_date, max_workers, futures, all_commits,
                    processed_commits, progress, calls >>

Next ==
    \/ AuthOk
    \/ AuthFail
    \/ FetchProjects
    \/ UsersEstimate
    \/ \E q \in 1..DefaultUserPages : UserCollect(q)
    \/ UsersReturn
    \/ UsersFallback
    \/ UsersBulk
    \/ UsersPages
    \/ SubmitAll
    \/ \E i \in 1..MaxProjects : TaskStart(i)
    \/ \E i \in 1..MaxProjects : TaskFinish(i)
    \/ \E i \in 1..MaxProjects : Collect(i)
    \/ Assemble

Spec == Init /\ [][Next]_vars

\* ------------------------------------------------------- the HTTP shell
\* POST /api/commits and GET /api/commits call get_commits_data with the
\* fields of the request and answer from what it returned.
Endpoints == {"POST", "GET"}
ApiDays == {0, 1}

\* HTTPException(status_code=..., detail=...)
HTTPException(status_code, detail) ==
    [status_code |-> status_code, detail |-> detail]

\* str(e) of an HTTPException: its status code and its detail.
StrOf(e) == << e.status_code, e.detail >>

\* What response_model=GitLabCommitResponse keeps of a returned dict: the
\* fields metadata and commits.
GitLabCommitResponse(result) ==
    [metadata |-> result.metadata, commits |-> result.commits]

\* A mutation of EndpointResponse: the result is returned without the test
\* for metadata.error.
EndpointResponse_PassesError(result) ==
    [status_code |-> 200, body |-> GitLabCommitResponse(result)]

\* The body of both route functions after get_commits_data returned: with
\* 'error' in result['metadata'] an HTTPException(500) is raised inside the
\* try, caught by `except Exception as e` and raised again as
\* HTTPException(500, detail=str(e)); otherwise the result is returned.
EndpointResponse(result) ==
    IF "error" \in DOMAIN result.metadata
    THEN HTTPException(500, StrOf(HTTPException(500, result.metadata.error)))
    ELSE [status_code |-> 200, body |-> GitLabCommitResponse(result)]

\* A request has arrived at one of the routes.
InitApi ==
    /\ pc = "auth"
    /\ endpoint \in Endpoints
    /\ days \in ApiDays
    /\ threads = 0
    /\ user_total = 1
    /\ diff = <<>>
    /\ Fresh
    /\ NoLoop
    /\ NoProjectRun

\* What answering leaves alone.
ApiFrame ==
    UNCHANGED << diffVars, loopVars, projVars, endpoint, days, threads, clock,
                 gl, projects, users, userVars, poolVars, report, calls >>

\* get_commits (POST) answers.
get_commits ==
    /\ endpoint = "POST"
    /\ pc = "done"
    /\ response' = EndpointResponse(report)
    /\ pc' = "responded"
    /\ ApiFrame

\* get_commits_by_get (GET) answers.
get_commits_by_get ==
    /\ endpoint = "GET"
    /\ pc = "done"
    /\ response' = EndpointResponse(report)
    /\ pc' = "responded"
    /\ ApiFrame

NextApi ==
    \/ Next
    \/ get_commits
    \/ get_commits_by_get

SpecApi == InitApi /\ [][NextApi]_vars

\* ------------------------------------------------ filter_diff_data alone
\* The dicts a diff is made of: any subset of the keys; new_file, when there,
\* is TRUE or FALSE.
PathDicts ==
    UNION { [keys -> {"x"}] : keys \in SUBSET (DiffKeys \ {"new_file"}) }

DiffDicts ==
    PathDicts \cup { d @@ ("new_file" :> b) : d \in PathDicts, b \in BOOLEAN }

RECURSIVE SeqsUpTo(_, _)
SeqsUpTo(S, n) ==
    IF n = 0 THEN { <<>> }
    ELSE LET shorter == SeqsUpTo(S, n - 1)
         IN shorter \cup { Append(q, x) : q \in shorter, x \in S }

\* filter_diff_data is called with some diff.
InitDiff ==
    /\ pc = "diff"
    /\ diff \in SeqsUpTo(DiffDicts, MaxDiffLen)
    /\ days = 1
    /\ threads = 0
    /\ user_total = 0
    /\ Fresh
    /\ NoEndpoint
    /\ NoLoop
    /\ NoProjectRun

\* filter_diff_data returns.
FilterDiff ==
    /\ pc = "diff"
    /\ filtered_diff' = filter_diff_data(diff)
    /\ pc' = "diff_done"
    /\ UNCHANGED << loopVars, projVars, apiVars, days, threads, clock, gl, projects, users, userVars,
                    poolVars, report, calls, diff >>

NextDiff == FilterDiff

SpecDiff == InitDiff /\ [][NextDiff]_vars

\* ------------------------------------------- the pagination loops alone
\* The three `while True` loops over list(page=page, per_page=100), each run
\* by itself against an upstream that answers up_pages non-empty pages and
\* then empty ones, or non-empty pages for ever, and whose request for page
\* up_fail_at raises.  One action is one turn of the loop.
LoopKinds == {"commits", "projects", "users"}

LoopCap(kind) ==
    CASE kind = "commits" -> CommitPageCap
      [] kind = "projects" -> ProjectPageCap
      [] OTHER -> UserPageCap

\* `batch` of the request for page q is not empty.
NonEmptyPage(q) == up_endless \/ q <= up_pages

\* page = 1, before the first turn of the loop.
InitLoops ==
    /\ pc = "loops"
    /\ loop \in LoopKinds
    /\ loop_pc = "run"
    /\ cur_page = 1
    /\ requests = 0
    /\ loop_kept = {}
    /\ loop_result = {}
    /\ up_endless \in BOOLEAN
    /\ up_pages \in 0..(LoopCap(loop) + 1)
    /\ up_endless => up_pages = 0
    /\ up_fail_at \in {0, 1, 2, LoopCap(loop)}
    /\ days = 1
    /\ threads = 0
    /\ user_total = 0
    /\ diff = <<>>
    /\ Fresh
    /\ NoEndpoint
    /\ NoProjectRun

\* What a turn leaves alone.
LoopFrame ==
    UNCHANGED << pc, days, threads, clock, gl, projects, users, userVars,
                 poolVars, report, calls, diffVars, projVars, apiVars, loop,
                 loop_result, up_pages, up_endless, up_fail_at >>

\* A mutation of CommitPageStep: the test after page += 1 is page > 11.
CommitPageStep_OffByOne ==
    /\ loop = "commits"
    /\ loop_pc = "run"
    /\ requests' = requests + 1
    /\ IF cur_page = up_fail_at
       THEN loop_pc' = "raised" /\ UNCHANGED << cur_page, loop_kept >>
       ELSE IF ~NonEmptyPage(cur_page)
       THEN loop_pc' = "done" /\ UNCHANGED << cur_page, loop_kept >>
       ELSE \/ loop_pc' = "raised" /\ UNCHANGED << cur_page, loop_kept >>
            \/ /\ loop_kept' = loop_kept \cup {cur_page}
               /\ cur_page' = cur_page + 1
               /\ loop_pc' = IF cur_page + 1 > CommitPageCap + 1
                             THEN "done" ELSE "run"
    /\ LoopFrame

\* One turn of the manual commit pagination of get_project_commits: the
\* request raises; or the batch is empty; or a commit of the batch makes the
\* date comparison raise; or the commits of the batch that fall in the window
\* are appended to `commits`, and page is incremented and tested against 10.
CommitPageStep ==
    /\ loop = "commits"
    /\ loop_pc = "run"
    /\ requests' = requests + 1
    /\ IF cur_page = up_fail_at
       THEN loop_pc' = "raised" /\ UNCHANGED << cur_page, loop_kept >>
       ELSE IF ~NonEmptyPage(cur_page)
       THEN loop_pc' = "done" /\ UNCHANGED << cur_page, loop_kept >>
       ELSE \/ loop_pc' = "raised" /\ UNCHANGED << cur_page, loop_kept >>
            \/ /\ loop_kept' = loop_kept \cup {cur_page}
               /\ cur_page' = cur_page + 1
               /\ loop_pc' = IF cur_page + 1 > CommitPageCap
                             THEN "done" ELSE "run"
    /\ LoopFrame

\* One turn of the manual project pagination of get_all_projects; a request
\* that raises is caught by the function's own except.
ProjectPageStep ==
    /\ loop = "projects"
    /\ loop_pc = "run"
    /\ requests' = requests + 1
    /\ IF cur_page = up_fail_at
       THEN loop_pc' = "raised" /\ UNCHANGED << cur_page, loop_kept >>
       ELSE IF ~NonEmptyPage(cur_page)
       THEN loop_pc' = "done" /\ UNCHANGED << cur_page, loop_kept >>
       ELSE /\ loop_kept' = loop_kept \cup {cur_page}
            /\ cur_page' = cur_page + 1
            /\ loop_pc' = IF cur_page + 1 > ProjectPageCap
                          THEN "done" ELSE "run"
    /\ LoopFrame

\* One turn of the pagination of _get_all_users_sequential; a request that
\* raises is caught in the loop, which breaks.
UserPageStep ==
    /\ loop = "users"
    /\ loop_pc = "run"
    /\ requests' = requests + 1
    /\ IF cur_page = up_fail_at
       THEN loop_pc' = "raised" /\ UNCHANGED << cur_page, loop_kept >>
       ELSE IF ~NonEmptyPage(cur_page)
       THEN loop_pc' = "done" /\ UNCHANGED << cur_page, loop_kept >>
       ELSE /\ loop_kept' = loop_kept \cup {cur_page}
            /\ cur_page' = cur_page + 1
            /\ loop_pc' = IF cur_page + 1 > UserPageCap
                          THEN "done" ELSE "run"
    /\ LoopFrame

\* What leaving a loop's function leaves alone.
ReturnFrame ==
    UNCHANGED << days, threads, clock, gl, projects, users, userVars,
                 poolVars, report, calls, diffVars, projVars, apiVars, loop,
                 loop_pc,
                 cur_page, requests, loop_kept, up_pages, up_endless,
                 up_fail_at >>

\* get_project_commits after its manual pagination: `except Exception as
\* final_e` only reports, and `for commit in commits` goes on with what the
\* loop appended.
CommitLoopReturn ==
    /\ pc = "loops"
    /\ loop = "commits"
    /\ loop_pc \in {"done", "raised"}
    /\ loop_result' = loop_kept
    /\ pc' = "loops_left"
    /\ ReturnFrame

\* A mutation of ProjectLoopReturn: the pages retrieved before the exception
\* are projected and returned.
ProjectLoopReturn_KeepsPages ==
    /\ pc = "loops"
    /\ loop = "projects"
    /\ loop_pc \in {"done", "raised"}
    /\ loop_result' = loop_kept
    /\ pc' = "loops_left"
    /\ ReturnFrame

\* get_all_projects after its manual pagination: projects_list is built from
\* `projects` and returned when the loop was left by a break; an exception
\* skips that assignment, and the outer except returns projects_list as it
\* was initialised, empty.
ProjectLoopReturn ==
    /\ pc = "loops"
    /\ loop = "projects"
    /\ loop_pc \in {"done", "raised"}
    /\ loop_result' = IF loop_pc = "raised" THEN {} ELSE loop_kept
    /\ pc' = "loops_left"
    /\ ReturnFrame

\* _get_all_users_sequential after its pagination: the exception was caught
\* inside the loop, and the projection of `users` is returned either way.
UserLoopReturn ==
    /\ pc = "loops"
    /\ loop = "users"
    /\ loop_pc \in {"done", "raised"}
    /\ loop_result' = loop_kept
    /\ pc' = "loops_left"
    /\ ReturnFrame

NextLoops ==
    \/ CommitPageStep
    \/ ProjectPageStep
    \/ UserPageStep
    \/ CommitLoopReturn
    \/ ProjectLoopReturn
    \/ UserLoopReturn

\* A request returns or raises, and the thread of the loop keeps running.
SpecLoops == InitLoops /\ [][NextLoops]_vars /\ WF_vars(NextLoops)

\* ------------------------------------------------ get_all_projects alone
\* get_all_projects is called on an instance holding up_projects projects,
\* whose listing calls behave as project_mode says.
InitProjects ==
    /\ pc = "get_all_projects"
    /\ up_projects \in 0..MaxListed
    /\ project_mode \in ProjectListModes
    /\ project_attempts = <<>>
    /\ days = 1
    /\ threads = 0
    /\ user_total = 0
    /\ diff = <<>>
    /\ Fresh
    /\ NoEndpoint
    /\ NoLoop

\* A mutation of GetAllProjects: an exception of a listing call reaches the
\* caller.
GetAllProjects_Propagates ==
    /\ pc = "get_all_projects"
    /\ project_attempts' = ListProjects(up_projects, project_mode).attempts
    /\ projects' = get_all_projects(up_projects, project_mode)
    /\ pc' = IF ListProjects(up_projects, project_mode).raised
             THEN "projects_raised" ELSE "projects_done"
    /\ UNCHANGED << days, threads, clock, gl, users, userVars, poolVars, report,
                    calls, diffVars, loopVars, apiVars, up_projects,
                    project_mode >>

\* get_all_projects returns projects_list.
GetAllProjects ==
    /\ pc = "get_all_projects"
    /\ project_attempts' = ListProjects(up_projects, project_mode).attempts
    /\ projects' = get_all_projects(up_projects, project_mode)
    /\ pc' = "projects_done"
    /\ UNCHANGED << days, threads, clock, gl, users, userVars, poolVars, report,
                    calls, diffVars, loopVars, apiVars, up_projects,
                    project_mode >>

NextProjects == GetAllProjects

SpecProjects == InitProjects /\ [][NextProjects]_vars

\* --------------------------------------------------- get_all_users alone
\* The numbers of users of the instances get_all_users is run against: none,
\* one, a full page, a page and one, and MaxUsers.
AloneUserTotals == {0, 1, PerPage, PerPage + 1, MaxUsers}

\* get_all_users is called.
InitUsers ==
    /\ pc = "users"
    /\ user_total \in AloneUserTotals
    /\ days = 1
    /\ threads = 0
    /\ diff = <<>>
    /\ Fresh
    /\ NoEndpoint
    /\ NoLoop
    /\ NoProjectRun

NextUsers ==
    \/ UsersEstimate
    \/ \E q \in 1..DefaultUserPages : UserCollect(q)
    \/ UsersReturn
    \/ UsersFallback
    \/ UsersBulk
    \/ UsersPages

SpecUsers == InitUsers /\ [][NextUsers]_vars

\* ================================================================ claims
Returned == pc = "done"
HasError(r) == "error" \in DOMAIN r.metadata
CountKeys == {"projects_count", "users_count", "commits_count"}

\* The entries of cs that carry the path of the i-th enumerated project.
FromProject(i, cs) ==
    LET Mine(c) == c.project_path = projects[i].path_with_namespace
    IN SelectSeq(cs, Mine)

\* The fetch of the i-th project failed entirely.
FailedEntirely(i) == futures[i].mode \in {"get_fail", "manual_fail"}

CountsMatch ==
    /\ CountKeys \subseteq DOMAIN report.metadata
    /\ report.metadata.projects_count = Len(projects)
    /\ report.metadata.users_count = UserCount(users)
    /\ report.metadata.commits_count = Len(report.commits)

\* C1 (as stated): in every report get_commits_data returns, the three count
\* fields of metadata equal the lengths of the enumerated project list, the
\* enumerated user list and the report's own commits list.
C1_CountsInEveryReport == Returned => CountsMatch

\* C1 (amended): in every report returned without metadata.error the three
\* count fields equal the lengths of the project list, the user list and the
\* report's commits list; the error report has no count field at all.
C1_CountsInDataReports ==
    Returned =>
        IF HasError(report) THEN DOMAIN report.metadata \cap CountKeys = {}
        ELSE CountsMatch

\* C1 witness: a data report over two projects, one of whose fetches failed,
\* with commits and a user.
C1_Witness ==
    /\ Returned
    /\ ~HasError(report)
    /\ report.metadata.projects_count = 2
    /\ report.metadata.commits_count > 0
    /\ report.metadata.users_count > 0
    /\ \E i \in DOMAIN futures : FailedEntirely(i)

\* C2: when get_gitlab_client fails, no project, user or commit call is ever
\* issued, and get_commits_data returns a report with a non-empty
\* metadata.error and an empty commits list.
C2_AuthFailureReport ==
    /\ ~gl => calls \subseteq {"auth"}
    /\ (Returned /\ ~gl) =>
          /\ HasError(report)
          /\ report.metadata.error # ""
          /\ report.commits = <<>>

\* C2 witness: the run ended after a failed authentication.
C2_Witness == Returned /\ ~gl /\ "auth" \in calls

\* Some step of the run can be taken.
CanProceed ==
    \/ pc \in {"projects", "users", "users_seq", "users_pages", "commits"}
    \/ pc = "users_wait" /\ (user_pending = {} \/ \E q \in user_pending : CanCollectUser(q))
    \/ CanAssemble
    \/ \E i \in DOMAIN futures : CanStart(i) \/ i \in Running \/ CanCollect(i)

\* C3: once authentication succeeded the run cannot stop before it returns,
\* and whatever the listing, detail and diff calls did, the report it returns
\* has no metadata.error and has the three count fields.
C3_OnlyAuthAborts ==
    /\ (gl /\ ~Returned) => CanProceed
    /\ (gl /\ Returned) =>
          /\ ~HasError(report)
          /\ CountKeys \subseteq DOMAIN report.metadata

\* C3 witness: a report returned although one project could not be opened and
\* every commit listing of another raised.
C3_Witness ==
    /\ Returned
    /\ gl
    /\ \E i, j \in DOMAIN futures :
          futures[i].mode = "get_fail" /\ futures[j].mode = "manual_fail"

\* C4: when the fetch of a project fails entirely, the aggregated list still
\* holds, for every project, exactly the commits its fetch returned (none for
\* the failed one), and projects_count is the number of enumerated projects.
C4_FailureIsContained ==
    (Returned /\ gl) =>
        /\ report.metadata.projects_count = Len(futures)
        /\ \A i \in DOMAIN futures :
              /\ FromProject(i, report.commits) = futures[i].result
              /\ FailedEntirely(i) => FromProject(i, report.commits) = <<>>

\* C4 witness: a report with the commits of one project beside a project whose
\* fetch failed entirely.
C4_Witness ==
    /\ Returned
    /\ gl
    /\ \E i, j \in DOMAIN futures :
          /\ FailedEntirely(i)
          /\ futures[j].result # <<>>
          /\ FromProject(j, report.commits) # <<>>

\* C5: end_date is the clock at the call of get_today_commits; start_date is
\* a midnight, days - 1 whole days before the midnight of end_date (today's
\* midnight for days = 1); every submitted fetch got this start and this end.
C5_Window ==
    /\ pc = "collect" => end_date = clock
    /\ pc \in {"collect", "done"} /\ gl =>
          /\ start_date % TicksPerDay = 0
          /\ start_date + (days - 1) * TicksPerDay <= end_date
          /\ end_date < start_date + days * TicksPerDay
          /\ days = 1 => (start_date <= end_date /\ end_date - start_date < TicksPerDay)
          /\ \A i \in DOMAIN futures :
                futures[i].start = start_date /\ futures[i].end = end_date

\* C5 witness: two fetches submitted for a window of two days entered after
\* midnight.
C5_Witness ==
    /\ pc = "collect"
    /\ days = 2
    /\ Len(futures) = 2
    /\ end_date % TicksPerDay # 0
    /\ futures[2].state = "done"

\* The i-th submitted fetch has returned.
Finished(i) == futures[i].state \in {"done", "collected"}

\* The enumerated project whose path c carries produced it by strategy st.
ProducedBy(c, st) ==
    \E i \in DOMAIN futures :
        /\ c.project_path = projects[i].path_with_namespace
        /\ futures[i].strategy = st

\* C6 (as stated): every commit of the report has created_at within
\* [start_date, end_date], whichever listing strategy produced it (read here
\* for the runs whose window is not empty, days >= 1).
C6_AllCommitsInWindow ==
    (Returned /\ gl /\ days >= 1) =>
        \A k \in 1..Len(report.commits) :
            /\ start_date <= report.commits[k].created_at.t
            /\ report.commits[k].created_at.t <= end_date

\* C6 (amended): every commit of the report has created_at >= start_date, and
\* created_at <= end_date too unless the since-only listing produced it: that
\* listing sends no upper bound and its result is not filtered afterwards.
C6_InWindowUnlessSinceOnly ==
    (Returned /\ gl) =>
        \A k \in 1..Len(report.commits) :
            LET c == report.commits[k] IN
            /\ start_date <= c.created_at.t
            /\ \/ ProducedBy(c, "since_until") \/ ProducedBy(c, "manual")
               \/ ProducedBy(c, "since")
            /\ ~ProducedBy(c, "since") => c.created_at.t <= end_date

\* C6 witness: a report holding a commit of a since+until listing and a
\* commit of a since-only listing that is later than end_date.
C6_Witness ==
    /\ Returned
    /\ gl
    /\ \E k \in 1..Len(report.commits) : ProducedBy(report.commits[k], "since_until")
    /\ \E k \in 1..Len(report.commits) :
          /\ ProducedBy(report.commits[k], "since")
          /\ report.commits[k].created_at.t > end_date

\* C7: the commits the manual pagination hands to the detail stage all have a
\* created_at, with start <= created_at <= end; the bounds are inclusive: of a
\* project that writes plain timestamps, every commit of the window's ticks,
\* the first and the last included, is handed on.
C7_ManualFilter ==
    \A i \in DOMAIN futures :
        (Finished(i) /\ futures[i].strategy = "manual") =>
            LET f == futures[i]
                repo == Repo(f.project.id)
            IN /\ \A k \in 1..Len(f.listed) :
                     /\ f.listed[k].has_created_at
                     /\ f.start <= f.listed[k].created_at.t
                     /\ f.listed[k].created_at.t <= f.end
               /\ (f.mode = "manual" /\ TzOf(f.project.id) = "naive") =>
                     \A k \in 1..NPlain :
                         (\E j \in 1..Len(f.listed) : f.listed[j] = repo[k])
                             <=> (f.start <= repo[k].t /\ repo[k].t <= f.end)

\* C7 witness: a manual pagination kept a commit created at start and one
\* created at end, start < end.
C7_Witness ==
    \E i \in DOMAIN futures :
        /\ Finished(i)
        /\ futures[i].mode = "manual"
        /\ futures[i].start < futures[i].end
        /\ \E j, k \in 1..Len(futures[i].listed) :
              /\ futures[i].listed[j].created_at.t = futures[i].start
              /\ futures[i].listed[k].created_at.t = futures[i].end

\* C8: filter_diff_data returns one entry per input entry, in the input's
\* order; each has new_path and old_path (the input's value, '' when the input
\* had none), has new_file with the input's value exactly when the input had
\* it, and has no other key.
C8_DiffProjection ==
    pc = "diff_done" =>
        /\ Len(filtered_diff) = Len(diff)
        /\ \A i \in 1..Len(diff) :
              LET o == filtered_diff[i]
                  d == diff[i]
              IN /\ DOMAIN o \subseteq KeptKeys
                 /\ {"new_path", "old_path"} \subseteq DOMAIN o
                 /\ "new_file" \in DOMAIN o <=> "new_file" \in DOMAIN d
                 /\ \A k \in DOMAIN o : o[k] = IF k \in DOMAIN d THEN d[k] ELSE ""

\* C8 witness: a filtered diff of two entries, the first without new_file and
\* with a key that is dropped, the second with new_file.
C8_Witness ==
    /\ pc = "diff_done"
    /\ Len(diff) = 2
    /\ "new_file" \notin DOMAIN diff[1]
    /\ "diff" \in DOMAIN diff[1]
    /\ "new_file" \in DOMAIN diff[2]
    /\ "new_path" \notin DOMAIN diff[2]

RECURSIVE BagOfSeq(_)
BagOfSeq(q) ==
    IF q = <<>> THEN EmptyBag ELSE SetToBag({Head(q)}) (+) BagOfSeq(Tail(q))

\* The multiset of the users of the batches of the pages 1..n already taken.
RECURSIVE TakenUsers(_)
TakenUsers(n) ==
    IF n = 0 THEN EmptyBag
    ELSE (IF n \in user_pending THEN EmptyBag ELSE BagOfSeq(user_batches[n]))
         (+) TakenUsers(n - 1)

\* What the fetch of the i-th project returns for the way its calls behaved.
Expected(i) ==
    get_project_commits(projects[i], futures[i].mode, start_date, end_date).result

RECURSIVE ExpectedBag(_)
ExpectedBag(n) ==
    IF n = 0 THEN EmptyBag ELSE BagOfSeq(Expected(n)) (+) ExpectedBag(n - 1)

RECURSIVE ExpectedCount(_)
ExpectedCount(n) ==
    IF n = 0 THEN 0 ELSE Len(Expected(n)) + ExpectedCount(n - 1)

\* C9: whatever the order in which the workers run and complete, the users
\* collected are the multiset of the batches taken so far, and the report's
\* commits are the multiset union of what each project's fetch returns for
\* the upstream behaviour it met; commits_count is the sum of their lengths.
C9_ScheduleIndependent ==
    /\ pc = "users_wait" => BagOfSeq(all_users) = TakenUsers(Len(user_batches))
    /\ (Returned /\ gl) =>
          /\ BagOfSeq(report.commits) = ExpectedBag(Len(projects))
          /\ report.metadata.commits_count = ExpectedCount(Len(projects))

\* C9 witness: a report whose commits of the second project come before those
\* of the first, both fetches having run at the same time.
C9_Witness ==
    /\ Returned
    /\ gl
    /\ Len(projects) = 2
    /\ max_workers > 1
    /\ futures[1].result # <<>>
    /\ futures[2].result # <<>>
    /\ report.commits[1].project_path = projects[2].path_with_namespace

RECURSIVE ReturnedCount(_)
ReturnedCount(n) ==
    IF n = 0 THEN 0 ELSE Len(futures[n].result) + ReturnedCount(n - 1)

\* C10: every record a fetch returns, and so every record of the report,
\* carries the path of the project the fetch was submitted for; commits_count
\* is the sum over the projects of the number of records their fetch returned.
C10_PathsAndSum ==
    /\ \A i \in DOMAIN futures :
          \A k \in 1..Len(futures[i].result) :
              futures[i].result[k].project_path = projects[i].path_with_namespace
    /\ (Returned /\ gl) =>
          /\ report.metadata.commits_count = ReturnedCount(Len(futures))
          /\ \A k \in 1..Len(report.commits) :
                \E i \in DOMAIN futures :
                    /\ report.commits[k].project_path = projects[i].path_with_namespace
                    /\ \E j \in 1..Len(futures[i].result) :
                          futures[i].result[j] = report.commits[k]

\* C10 witness: two projects, the first with three commits in the window of
\* days = 1 and the second with none, one user: counts 2, 1 and 3, and the
\* three records carry the first project's path.
C10_Witness ==
    /\ Returned
    /\ gl
    /\ days = 1
    /\ report.metadata.projects_count = 2
    /\ report.metadata.users_count = 1
    /\ report.metadata.commits_count = 3
    /\ futures[2].result = <<>>
    /\ \A k \in 1..3 :
          report.commits[k].project_path = projects[1].path_with_namespace

\* The listings of get_project_commits in the order of the code.
Ladder == << "since_until", "since", "manual" >>

\* The i-th fetch has returned and as_completed has not yielded it yet: the
\* state in which what it returned is examined (a future does not change
\* once it is done).
JustReturned(i) == futures[i].state = "done"

\* C11: the listings a fetch attempted are a prefix of since+until, since,
\* manual, starting with since+until; since-only was attempted exactly when
\* since+until raised, the manual pagination exactly when since-only raised
\* as well; the commits are those of the last listing attempted, so that an
\* answer of an earlier listing, empty or not, ends the attempts.
C11_LadderInOrder ==
    \A i \in DOMAIN futures :
        (JustReturned(i) /\ futures[i].mode # "get_fail") =>
            LET f == futures[i]
                n == Len(f.attempts)
            IN /\ n \in 1..3
               /\ f.attempts = SubSeq(Ladder, 1, n)
               /\ n >= 2 <=> SinceUntilRaises(f.mode)
               /\ n = 3 <=> (SinceUntilRaises(f.mode) /\ SinceRaises(f.mode))
               /\ f.strategy = f.attempts[n]
               /\ n = 1 => f.listed = ListSinceUntil(f.project.id, f.start, f.end)
               /\ n = 2 => f.listed = ListSince(f.project.id, f.start)

\* C11 witness: a since+until listing that answered with nothing and was the
\* only attempt, beside a fetch that went down to the manual pagination.
C11_Witness ==
    \E i, j \in DOMAIN futures :
        /\ Finished(i)
        /\ futures[i].mode = "ok"
        /\ futures[i].listed = <<>>
        /\ futures[i].attempts = << "since_until" >>
        /\ Finished(j)
        /\ futures[j].attempts = Ladder

\* The loop has been left.
LoopOver == loop_pc \in {"done", "raised"}

\* The requests of a loop that no exception cut short: the pages up to the
\* first empty one, or those up to the cap.
RequestsDue ==
    IF up_endless \/ up_pages >= LoopCap(loop) THEN LoopCap(loop)
    ELSE up_pages + 1

C12_LoopBounded ==
    /\ requests <= LoopCap(loop)
    /\ loop_pc = "run" =>
          /\ requests = cur_page - 1
          /\ cur_page <= LoopCap(loop)
          /\ \A q \in 1..(cur_page - 1) : NonEmptyPage(q)
    /\ loop_pc = "done" =>
          /\ requests = RequestsDue
          /\ \A q \in 1..(requests - 1) : NonEmptyPage(q)
          /\ requests < LoopCap(loop) => ~NonEmptyPage(requests)

\* C12: each of the three pagination loops is left after finitely many
\* turns, also against an upstream without an empty page; it never issued
\* more than its cap of requests (10 for commits, 100 for projects, 50 for
\* users), and when no exception cut it short it requested the pages up to
\* the first empty one or, if there is none before, up to the cap.
C12_LoopsTerminate == [](C12_LoopBounded) /\ <>LoopOver

\* C12 witness: the project loop has been left after 100 requests to an
\* upstream that never answers an empty page.
C12_Witness ==
    /\ loop = "projects"
    /\ up_endless
    /\ loop_pc = "done"
    /\ requests = ProjectPageCap

\* The bulk listing that did not raise, if there is one, and its answer.
BulkAnswered == ~(VisRaises(project_mode) /\ BulkRaises(project_mode))

\* C13: get_all_projects first calls the bulk listing with visibility='all';
\* it calls the bulk listing without the filter exactly when the first one
\* raised, and right after it; it paginates by hand exactly when the bulk
\* listing that answered held nothing, and after the bulk listings.  When a
\* bulk listing answers with projects, they are the result, in its order.
C13_ProjectLadder ==
    pc = "projects_done" =>
        LET a == project_attempts
            answer == BulkAnswer(up_projects, project_mode)
            Tried(x) == \E k \in 1..Len(a) : a[k] = x
        IN /\ Len(a) \in 1..3
           /\ a[1] = "bulk_visibility"
           /\ Tried("bulk") <=> VisRaises(project_mode)
           /\ Tried("bulk") => a[2] = "bulk"
           /\ Tried("pages") <=> (BulkAnswered /\ answer = <<>>)
           /\ Tried("pages") => a[Len(a)] = "pages"
           /\ \A j, k \in 1..Len(a) : a[j] = a[k] => j = k
           /\ (BulkAnswered /\ answer # <<>>) =>
                  /\ Len(projects) = Len(answer)
                  /\ \A k \in 1..Len(answer) : projects[k].id = answer[k].id

\* C13 witness: the first bulk listing raised, the second answered with
\* nothing, and the pagination found more than one page of projects.
C13_Witness ==
    /\ pc = "projects_done"
    /\ project_attempts = << "bulk_visibility", "bulk", "pages" >>
    /\ Len(projects) > PerPage

ProjectKeys == {"id", "name", "path_with_namespace", "visibility", "web_url"}

\* C14: whatever the listing calls do, get_all_projects returns: a list, with
\* no more entries than the instance holds projects and none when a listing
\* raised uncaught by an inner try; every entry has exactly the fields id,
\* name, path_with_namespace, visibility and web_url, with the values of the
\* upstream project and "unknown" for a visibility upstream does not send.
C14_ProjectsNeverRaises ==
    /\ pc \in {"get_all_projects", "projects_done"}
    /\ pc = "projects_done" =>
          /\ DOMAIN projects = 1..Len(projects)
          /\ Len(projects) <= up_projects
          /\ ListProjects(up_projects, project_mode).raised => projects = <<>>
          /\ \A k \in 1..Len(projects) :
                LET e == projects[k]
                    o == ProjectObj(e.id)
                IN /\ DOMAIN e = ProjectKeys
                   /\ e.id \in 1..up_projects
                   /\ e.name = o.name
                   /\ e.path_with_namespace = o.path_with_namespace
                   /\ e.web_url = o.web_url
                   /\ e.visibility = IF o.has_visibility THEN o.visibility
                                     ELSE "unknown"

\* C14 witness: every listing call raised and get_all_projects returned the
\* empty list although the instance holds projects.
C14_Witness ==
    /\ pc = "projects_done"
    /\ project_mode = "both_fail"
    /\ up_projects > 0
    /\ projects = <<>>

\* The least number of pages of 100 that hold n users.
CeilPages(n) == CHOOSE k \in 0..n : k * 100 >= n /\ (k - 1) * 100 < n

\* C15: the futures get_all_users submits are as many as the pages required,
\* ceiling(total / 100) when the first page has a total (3 for 201..300
\* users, given the pages 1, 2 and 3) and 20 when it has none; every page of
\* 1..total_pages is given to exactly one future and no other page is.
C15_OneTaskPerPage ==
    pc = "users_wait" =>
        LET total_pages == IF user_has_total THEN CeilPages(user_total) ELSE 20
        IN /\ Len(user_pages) = total_pages
           /\ DOMAIN user_batches = DOMAIN user_pages
           /\ \A k \in DOMAIN user_pages : user_pages[k] \in 1..total_pages
           /\ \A q \in 1..total_pages :
                 Cardinality({k \in DOMAIN user_pages : user_pages[k] = q}) = 1
           /\ (user_has_total /\ user_total \in 201..300) =>
                 user_pages = << 1, 2, 3 >>

\* C15 witness: 250 users and a total on the first page: three futures, all
\* of them taken.
C15_Witness ==
    /\ pc = "users_wait"
    /\ user_has_total
    /\ user_total = MaxUsers
    /\ Len(user_pages) = 3
    /\ user_pending = {}

\* The users of the pages given to the futures 1..k whose fetch succeeded.
RECURSIVE SucceededUsers(_)
SucceededUsers(k) ==
    IF k = 0 THEN EmptyBag
    ELSE (IF user_pages[k] \in user_failing THEN EmptyBag
          ELSE BagOfSeq(UserPage(user_total, user_pages[k], PerPage)))
         (+) SucceededUsers(k - 1)

\* C16: the parallel pass can always go on until every future is taken, and
\* when it is over all_users holds exactly the users of the pages whose fetch
\* succeeded, each once, whatever pages failed and in whatever order the
\* futures completed; a failed page adds nothing.
C16_FailedPageIsEmpty ==
    pc = "users_wait" =>
        /\ user_pending # {} => \E q \in user_pending : CanCollectUser(q)
        /\ \A k \in DOMAIN user_pages :
              user_pages[k] \in user_failing => user_batches[k] = <<>>
        /\ user_pending = {} =>
              BagOfSeq(all_users) = SucceededUsers(Len(user_pages))

\* C16 witness: of three pages the second failed, and the third was taken
\* before the first.
C16_Witness ==
    /\ pc = "users_wait"
    /\ user_pending = {}
    /\ user_failing = {2}
    /\ Len(user_pages) = 3
    /\ Len(all_users) = 2
    /\ all_users[1][1] = 2 * PerPage + 1
    /\ all_users[2][1] = 1

UserPcs == {"users", "users_wait", "users_seq", "users_pages", "commits"}

\* A step of get_all_users is possible until it has returned.
UsersCanProceed ==
    \/ pc \in {"users", "users_seq", "users_pages", "commits"}
    \/ /\ pc = "users_wait"
       /\ \/ user_pending = {}
          \/ \E q \in user_pending : CanCollectUser(q)

C17_Steps ==
    /\ (pc' = "users_seq" /\ pc # "users_seq") =>
          \/ pc = "users"
          \/ pc = "users_wait" /\ user_pending = {} /\ all_users = <<>>
    /\ (pc = "users_wait" /\ pc' # "users_wait") =>
          /\ user_pending = {}
          /\ all_users = <<>> => pc' = "users_seq"
          /\ all_users # <<>> => (pc' = "commits" /\ users' = all_users)
    /\ (pc = "users_seq" /\ pc' # "users_seq") =>
          \/ pc' = "commits" /\ users' = UserRun(1, user_total)
          \/ pc' = "users_pages"
    /\ (pc' = "users_pages" /\ pc # "users_pages") => pc = "users_seq"
    /\ (pc = "users_pages" /\ pc' # "users_pages") =>
          /\ pc' = "commits"
          /\ UserCount(users') <= Min(user_total, UserPageCap * PerPage)

\* C17: _get_all_users_sequential is entered only when the first users.list
\* raised or when the parallel pass is over with no user, and a pass that is
\* over with no user is left in no other way; a pass that is over with users
\* returns them as they are; the sequential function returns the answer of
\* its bulk call, and paginates only after that call raised; get_all_users
\* always has a next step until it has returned.
C17_FallbackLadder == [](pc \in UserPcs /\ UsersCanProceed) /\ [][C17_Steps]_vars

\* C17 witness: get_all_users returned the first and the third page of a
\* parallel pass whose second page failed.
C17_Witness ==
    /\ pc = "commits"
    /\ Len(users) = 2
    /\ users[1] = << 1, PerPage >>
    /\ users[2][1] = 2 * PerPage + 1

\* The record r is the one built from the listed commit c.
RecordOf(r, c) ==
    /\ r.title = c.title
    /\ r.message = c.message
    /\ r.author_name = c.author_name
    /\ r.author_email = c.author_email
    /\ r.created_at.t = c.created_at.t
    /\ r.diff = IF c.diff_ok THEN filter_diff_data(c.raw_diff) ELSE <<>>

\* The result of the i-th fetch is made of one record for each listed commit
\* that satisfies Kept, in the order of the listing.
OneRecordPerKept(i, Kept(_)) ==
    LET kept == SelectSeq(futures[i].listed, Kept)
    IN /\ Len(futures[i].result) = Len(kept)
       /\ \A k \in 1..Len(kept) : RecordOf(futures[i].result[k], kept[k])

DetailOk(c) == c.detail_ok
DetailAndAttributesOk(c) == c.detail_ok /\ c.has_created_at

\* C18 (as stated): the result of a fetch holds exactly one record for each
\* listed commit whose detail fetch succeeded, in listing order, with an
\* empty diff list when the diff fetch failed.
C18_OnePerDetailFetched ==
    \A i \in DOMAIN futures : JustReturned(i) => OneRecordPerKept(i, DetailOk)

\* C18 (amended): every started fetch returns a list; it holds exactly one
\* record for each listed commit whose detail fetch succeeded and whose
\* object has the attributes the record reads (created_at), in listing
\* order; a commit whose detail fetch fails or that lacks the attribute is
\* skipped without affecting the others; a commit whose diff fetch fails is
\* kept with an empty diff list.
C18_OnePerCommitThatPasses ==
    \A i \in DOMAIN futures :
        /\ futures[i].state \in {"pending", "running", "done", "collected"}
        /\ futures[i].state = "running" => pc = "collect"
        /\ JustReturned(i) =>
              /\ OneRecordPerKept(i, DetailAndAttributesOk)
              /\ futures[i].mode = "get_fail" => futures[i].result = <<>>

\* C18 witness: a fetch listed a commit whose detail fetch fails, one without
\* created_at and one whose diff fetch fails, and returned records before
\* and after them, the one of the failed diff with an empty diff list.
C18_Witness ==
    \E i \in DOMAIN futures :
        LET f == futures[i] IN
        /\ Finished(i)
        /\ \E a, b, c \in 1..Len(f.listed) :
              /\ a < b
              /\ b < c
              /\ f.listed[a].detail_ok /\ f.listed[a].has_created_at
              /\ ~f.listed[b].detail_ok \/ ~f.listed[b].has_created_at
              /\ f.listed[c].detail_ok /\ f.listed[c].has_created_at
        /\ \E b \in 1..Len(f.listed) : ~f.listed[b].detail_ok
        /\ \E b \in 1..Len(f.listed) : ~f.listed[b].has_created_at
        /\ \E k \in 1..Len(f.result) :
              f.result[k].diff = <<>> /\ f.result[k].title = <<"title", f.project.id, NPlain + 2>>
        /\ Len(f.result) = Len(f.listed) - 2

\* C19: get_today_commits submits one get_project_commits per enumerated
\* project, in the order of the list, to a pool of `threads` workers when
\* threads > 0 and of min(32, 4 x cpu count) workers otherwise; never more
\* tasks run at once than the pool has workers, and tasks run only while the
\* pool is open; when get_today_commits has returned, every submitted task
\* has completed and been taken and the pool is shut down, whether or not
\* fetches failed.
C19_BoundedPool ==
    /\ pool # "open" => Running = {}
    /\ pc = "collect" => pool = "open"
    /\ (pc \in {"collect", "done"} /\ gl) =>
          /\ Len(futures) = Len(projects)
          /\ \A i \in DOMAIN futures : futures[i].project = projects[i]
          /\ threads > 0 => max_workers = threads
          /\ threads <= 0 =>
                \E cpu \in CpuCounts :
                    max_workers = (IF 4 * cpu < 32 THEN 4 * cpu ELSE 32)
          /\ Cardinality(Running) <= max_workers
    /\ (Returned /\ gl) =>
          /\ pool = "shut"
          /\ \A i \in DOMAIN futures : futures[i].state = "collected"

\* C19 witness: with threads = 1 and two projects, get_today_commits has
\* returned and shut the pool; the first fetch failed entirely.
C19_Witness ==
    /\ Returned
    /\ gl
    /\ threads = 1
    /\ max_workers = 1
    /\ Len(futures) = 2
    /\ FailedEntirely(1)
    /\ pool = "shut"

\* The futures as_completed has yielded.
Collected == {i \in DOMAIN futures : futures[i].state = "collected"}

C20_Counters ==
    /\ progress = Cardinality(Collected)
    /\ processed_commits = Len(all_commits)
    /\ progress <= Len(projects)
    /\ (Returned /\ gl) => progress = Len(projects)

\* C20: the progress counter is the number of project tasks taken from
\* as_completed, failed ones included; a step leaves it as it is or adds one
\* to it; it is the number of projects when get_today_commits has returned;
\* the running commit count is the length of all_commits.
C20_ProgressCounts ==
    [](C20_Counters) /\ [][progress' \in {progress, progress + 1}]_vars

\* C20 witness: two projects, one whose fetch failed entirely and one with
\* commits; the run has returned with progress 2.
C20_Witness ==
    /\ Returned
    /\ gl
    /\ progress = 2
    /\ processed_commits > 0
    /\ \E i \in DOMAIN futures : FailedEntirely(i)

\* C21: whatever days get_commits_data was given, the window get_today_commits
\* computes has start_date <= end_date.
C21_WindowOrdered ==
    (pc \in {"collect", "done"} /\ gl) => start_date <= end_date

\* The places of all_users that hold user u.
PlacesOf(u) ==
    {k \in DOMAIN all_users : all_users[k][1] <= u /\ u <= all_users[k][2]}

\* C22: when the first page exposes a total and no page fetch fails, the
\* list the parallel pass of get_all_users ends with holds every upstream
\* user exactly once and nobody else (the estimation page adds nothing to it,
\* the pages of 100 neither overlap nor leave a gap), and that list is what
\* get_all_users returns when it is not empty.
C22_Complete ==
    (pc = "users_wait" /\ user_pending = {} /\ user_has_total
        /\ user_failing = {}) =>
        /\ \A u \in 1..user_total : Cardinality(PlacesOf(u)) = 1
        /\ UserCount(all_users) = user_total

C22_EveryUserOnce ==
    /\ [](C22_Complete)
    /\ [][(pc = "users_wait" /\ pc' = "commits") => users' = all_users]_vars

\* C22 witness: 250 users, a total on the first page and no failure: three
\* pages, the first of them taken last.
C22_Witness ==
    /\ pc = "users_wait"
    /\ user_pending = {}
    /\ user_has_total
    /\ user_failing = {}
    /\ user_total = MaxUsers
    /\ Len(all_users) = 3
    /\ all_users[3][1] = 1

\* The loop's function is over.
LoopLeft == pc = "loops_left"

\* C23: a page request that raises on page k > 1 is not treated alike by the
\* three paginations: each held the items of the pages 1..k-1 when it was
\* raised, and get_all_projects returns none of them, whereas
\* get_project_commits goes on with, and _get_all_users_sequential returns,
\* those of all the pages 1..k-1.
C23_PartialResults ==
    (LoopLeft /\ loop_pc = "raised" /\ cur_page > 1) =>
        /\ loop_kept = 1..(cur_page - 1)
        /\ loop = "projects" => loop_result = {}
        /\ loop \in {"commits", "users"} => loop_result = 1..(cur_page - 1)

\* C23 witness: the request for the second page of projects raised, and
\* get_all_projects returned nothing of the first.
C23_Witness ==
    /\ LoopLeft
    /\ loop = "projects"
    /\ loop_pc = "raised"
    /\ cur_page = 2
    /\ up_fail_at = 2
    /\ loop_kept = {1}
    /\ loop_result = {}

\* A route has answered.
Responded == pc = "responded"

\* C24: whichever route was called, its answer is the report get_commits_data
\* returned, as it is and with status 200, exactly when that report has no
\* metadata.error; otherwise the answer has status 500 and carries no report.
C24_ReportOrError ==
    Responded =>
        /\ (response = [status_code |-> 200, body |-> report])
              <=> ~HasError(report)
        /\ HasError(report) =>
              /\ response.status_code = 500
              /\ "body" \notin DOMAIN response
        /\ "body" \in DOMAIN response => ~HasError(response.body)

\* C24 witness: GET /api/commits answered 500 to a call in which
\* authentication failed.
C24_Witness ==
    /\ Responded
    /\ endpoint = "GET"
    /\ HasError(report)
    /\ response.status_code = 500

====
